---- MODULE Spec2Model ----
(***************************************************************************)
(* Model of the avio decode-and-synchronisation core.                      *)
(*                                                                         *)
(*   src/src/video.rs  Video: next_frame loop and the accurate-seek state  *)
(*                     machine (just_seeked, seek_target_ms,               *)
(*                     frames_decoded_since_seek, current_timestamp_ms).   *)
(*   src/src/audio.rs  Audio: sink control, seek, the shared time cell and *)
(*                     the MemoryAudioSource cursor, read through the      *)
(*                     buffering of repeat_infinite.                       *)
(*                                                                         *)
(* The decoder, the container and the output sink are the environment:     *)
(* what they deliver (frames, packets, errors) is chosen                   *)
(* nondeterministically from bounded sets.                                 *)
(***************************************************************************)
EXTENDS Integers, Sequences, FiniteSets, TLC

VARIABLES
    \* ---- Video (src/src/video.rs:29-43) ----
    time_base,                  \* stream time base, a rational [num, den]
    current_timestamp_ms,
    just_seeked,
    seek_target_ms,
    frames_decoded_since_seek,
    \* ---- decoder / container environment of Video ----
    decoder_pending,            \* frames the decoder holds ready for receive_frame
    container_eof,              \* packets().next() has reported end of stream
    \* ---- position of the main thread inside Video ----
    v_pc,                       \* "idle" | "next_frame" (inside the loop)
    v_result,                   \* what the last Video call returned
    \* ---- observation of the decoder output ----
    decoded,                    \* pts of the frame receive_frame delivered last
    last_pts,                   \* pts of the last timestamped frame since the last seek
    discarded_timed,            \* timestamped frames dropped since the last seek
    discarded_untimed,          \* pts-less frames dropped since the last seek
    \* ---- Audio (src/src/audio.rs) ----
    sample_rate,
    duration_ms,
    samples_len,
    a_time_cell,                \* Audio.current_time_ms, the Arc<Mutex<i64>>
    cell_lock,                  \* the thread holding the cell's mutex, or "free"
    was_playing,
    sink_paused,
    cursor,                     \* the playing source: [live, start_pos, position, play,
                                \*   fill_to, unpaused]
    a_pc,                       \* position of the main thread inside Audio::seek
    a_seek,                     \* locals of the Audio::seek in progress
    a_last,                     \* last Audio call completed and what it returned
    pulled_since_attach,        \* the output thread has pulled from the attached cursor
    queued,                     \* sources appended to the sink behind the playing one
    \* ---- VideoPlayer (src/src/main.rs:9-28) ----
    audio_attached,             \* VideoPlayer.audio is Some
    paused,
    frame_count,                \* FpsCounter.frame_count
    p_pc,                       \* position of the main thread inside update_video_frame
    p_last,                     \* what the current/last update cycle did
    \* ---- DecodedAudio::new (src/src/audio.rs:21-110) ----
    load_pc,                    \* "packets" | "frames" | "done"
    load_channels,
    load_len,                   \* samples.len()
    load_duration_ms,
    load_time_base,             \* time base of the audio stream
    \* ---- duration of the video in Video::new (src/src/video.rs:65-75, 172-191) ----
    d_pc,                       \* "open" | "scan" | "done" | "panicked"
    d_reported,                 \* input_context.duration(), in AV_TIME_BASE units
    d_rate,                     \* avg_frame_rate of the stream, a rational
    d_last_pts,                 \* calculate_duration's last_pts
    d_max_pts,                  \* largest rescaled pts among the scanned video packets
    d_scanned,                  \* packets read by the scan
    d_duration_ms,              \* Video.duration_ms
    d_at_start,                 \* the container is positioned at its start
    \* ---- Video::convert_rgb_to_rgba_fast (src/src/video.rs:234-251) ----
    c_pc,                       \* "loop" | "done"
    c_width,
    c_height,
    c_line_size,
    c_src,                      \* source bytes, src[0] is c_src[1]
    c_dst,                      \* destination bytes
    c_x,
    c_y,
    c_out_of_range,             \* an index outside a buffer has been used
    \* ---- observation of single Video::next_frame calls ----
    v_call,                     \* seek-recovery state when the current/last call began
    v_send_failed               \* a call has returned a packet-submission error

video_vars == <<time_base, current_timestamp_ms, just_seeked, seek_target_ms,
                frames_decoded_since_seek, decoder_pending, container_eof,
                v_pc, v_result, decoded, last_pts, discarded_timed,
                discarded_untimed>>

audio_vars == <<sample_rate, duration_ms, samples_len, a_time_cell, was_playing,
                sink_paused, cursor, a_pc, a_seek, a_last, pulled_since_attach,
                queued, cell_lock>>

player_vars == <<audio_attached, paused, frame_count, p_pc, p_last>>

load_vars == <<load_pc, load_channels, load_len, load_duration_ms,
               load_time_base>>

dur_vars == <<d_pc, d_reported, d_rate, d_last_pts, d_max_pts, d_scanned,
              d_duration_ms, d_at_start>>

rgb_vars == <<c_pc, c_width, c_height, c_line_size, c_src, c_dst, c_x, c_y,
              c_out_of_range>>

call_vars == <<v_call, v_send_failed>>

vars == <<video_vars, audio_vars, player_vars, load_vars, dur_vars, rgb_vars,
          call_vars>>

----------------------------------------------------------------------------
(* Bounds of the explored inputs.                                          *)

MaxRawPts == 2
MaxTargetMs == 2
MaxPending == 1
MaxUntimed == 1

NoPts == -1

RawPts == 0..MaxRawPts
FramePts == RawPts \cup {NoPts}
Targets == 0..MaxTargetMs
TimeBases == { [num |-> 1, den |-> 1000], [num |-> 1, den |-> 2000] }

----------------------------------------------------------------------------
(* Rational time conversion.                                               *)

MS_TIME_BASE == [num |-> 1, den |-> 1000]
AV_TIME_BASE_Q == [num |-> 1, den |-> 1000000]

\* i64::rescale(source, destination) is av_rescale_q: a * source / destination,
\* rounded to nearest with halves away from zero.
RescaleNonNeg(a, b, c) == (a * b + c \div 2) \div c

Rescale(a, source, destination) ==
    LET b == source.num * destination.den
        c == destination.num * source.den
    IN  IF a >= 0 THEN RescaleNonNeg(a, b, c) ELSE 0 - RescaleNonNeg(0 - a, b, c)

timestamp_to_ms(timestamp, tb) == Rescale(timestamp, tb, MS_TIME_BASE)

ms_to_timestamp(ms, tb) == Rescale(ms, MS_TIME_BASE, tb)

----------------------------------------------------------------------------
(* f64 arithmetic of the conversions that go through floating point.       *)

\* floor(log2(a / b)) for positive integers a and b.
RECURSIVE FloorLog2(_, _)
FloorLog2(a, b) ==
    IF a >= 2 * b THEN FloorLog2(a, 2 * b) + 1
    ELSE IF a < b THEN FloorLog2(2 * a, b) - 1
    ELSE 0

RECURSIVE Pow2(_)
Pow2(n) == IF n <= 0 THEN 1 ELSE 2 * Pow2(n - 1)

\* 2^e mod m.
RECURSIVE Pow2Mod(_, _)
Pow2Mod(e, m) == IF e <= 0 THEN 1 % m ELSE (2 * Pow2Mod(e - 1, m)) % m

\* (k as f64 * (a as f64 / b as f64)) truncated to an integer, for k >= 0 and
\* positive a, b.  The quotient a / b is rounded to a 53-bit mantissa; with
\* r the remainder of a * 2^(52 - L) by b, L = floor(log2(a / b)), it is
\* rounded down when 2r < b and is then short of a / b by r / (b * 2^(52 - L)).
\* The product is rounded again.  When k * a / b is not a whole number the
\* two roundings cannot reach the next integer and the result is the floor;
\* a whole quotient a / b is exact and so is the product.
\* When k * a / b is a whole number n the product k * r / (b * 2^(52 - L))
\* below n rounds back to n only if that is at most half the distance from n
\* to the f64 below it, otherwise the cast truncates to n - 1.
F64ScaleTrunc(k, a, b) ==
    LET n == (k * a) \div b
    IN  IF (k * a) % b # 0 \/ n = 0 \/ a % b = 0 THEN n
        ELSE LET L == FloorLog2(a, b)
                 r == ((a % b) * Pow2Mod(52 - L, b)) % b
                 E == FloorLog2(n, 1)
                 sh == E - L - (IF n = Pow2(E) THEN 2 ELSE 1)
             IN  IF 2 * r > b \/ k * r * Pow2(0 - sh) <= b * Pow2(sh)
                 THEN n ELSE n - 1

\* (1000.0 / (num as f64 / den as f64)) truncated to an integer, for positive
\* num, den.  The rate num / den is rounded first; when it is rounded up by
\* a / (den * 2^(52 - L)), a = den - r, the quotient falls below
\* 1000 * den / num, and where that is a whole number n it rounds back to n
\* only if the shortfall is at most half the distance to the f64 below n.
F64FrameInterval(num, den) ==
    LET n == (1000 * den) \div num
    IN  IF (1000 * den) % num # 0 \/ n = 0 THEN n
        ELSE LET L == FloorLog2(num, den)
                 r == ((num % den) * Pow2Mod(52 - L, den)) % den
                 E == FloorLog2(n, 1)
                 sh == L + (IF n = Pow2(E) THEN 2 ELSE 1)
             IN  IF 2 * r <= den
                    \/ (den - r) * n * Pow2(sh) <= num * Pow2(E) * Pow2(0 - sh)
                 THEN n ELSE n - 1

----------------------------------------------------------------------------
(* Video: accurate seek and next_frame.                                    *)

SeekFrameLimit == 300

\* video.rs:134  if self.frames_decoded_since_seek > 300
SafetyValve(n) == n > SeekFrameLimit

IsPreRoll_never(pts_ms) == FALSE

\* video.rs:140  if pts_ms == 0 { }
IsPreRoll(pts_ms) == pts_ms = 0

ReachedTarget_reversed(pts_ms, target) == pts_ms <= target

ReachedTarget_never(pts_ms, target) == FALSE

\* video.rs:141  else if pts_ms >= self.seek_target_ms
ReachedTarget(pts_ms, target) == pts_ms >= target

UntimedEmitted_always(seeking) == TRUE

UntimedEmitted_never(seeking) == FALSE

\* video.rs:153  a frame without pts: if !self.just_seeked { return Some(..) }
UntimedEmitted(seeking) == ~seeking

SeekProceeds_ignoring_error(seek_ok) == TRUE

SeekProceeds_on_failure(seek_ok) == ~seek_ok

\* video.rs:259  self.input_context.seek(target_ts, ..target_ts)?
\* the `?` returns early when the container rejects the seek.
SeekProceeds(seek_ok) == seek_ok

SeekCommit_keeps_count(target_ms) ==
    /\ just_seeked' = TRUE
    /\ seek_target_ms' = target_ms
    /\ frames_decoded_since_seek' = frames_decoded_since_seek
    /\ current_timestamp_ms' = target_ms

SeekCommit_without_flag(target_ms) ==
    /\ just_seeked' = just_seeked
    /\ seek_target_ms' = target_ms
    /\ frames_decoded_since_seek' = 0
    /\ current_timestamp_ms' = target_ms

\* video.rs:261-264
SeekCommit(target_ms) ==
    /\ just_seeked' = TRUE
    /\ seek_target_ms' = target_ms
    /\ frames_decoded_since_seek' = 0
    /\ current_timestamp_ms' = target_ms

\* Video::new, video.rs:46-105, for a stream with one of the given time bases.
VideoInitWith(bases) ==
    /\ time_base \in bases
    /\ current_timestamp_ms = 0
    /\ just_seeked = FALSE
    /\ seek_target_ms = 0
    /\ frames_decoded_since_seek = 0
    /\ decoder_pending = 0
    /\ container_eof = FALSE
    /\ v_pc = "idle"
    /\ v_result = [kind |-> "Start", settled |-> FALSE]
    /\ decoded = NoPts
    /\ last_pts = NoPts
    /\ discarded_timed = 0
    /\ discarded_untimed = 0

VideoInit == VideoInitWith(TimeBases)

\* return Some(self.convert_frame(decoded)): the scaler may fail, the frame is
\* handed to the caller either as Ok(VideoFrame) or as Err.
Emit(scale_ok, settled) ==
    /\ v_pc' = "idle"
    /\ v_result' = [kind |-> IF scale_ok THEN "Frame" ELSE "ConvertErr",
                    settled |-> settled]

Discard ==
    /\ v_pc' = "next_frame"
    /\ UNCHANGED v_result

\* One pass of the loop in which receive_frame returns Ok: video.rs:127-157.
next_frame_receive(pts, scale_ok) ==
    /\ decoder_pending > 0
    /\ decoder_pending' = decoder_pending - 1
    /\ decoded' = pts
    /\ last_pts' = IF pts # NoPts THEN pts ELSE last_pts
    /\ UNCHANGED <<time_base, seek_target_ms, container_eof>>
    /\ IF pts # NoPts
       THEN LET pts_ms == timestamp_to_ms(pts, time_base) IN
            IF just_seeked
            THEN /\ frames_decoded_since_seek' = frames_decoded_since_seek + 1
                 /\ UNCHANGED discarded_untimed
                 /\ IF SafetyValve(frames_decoded_since_seek + 1)
                    THEN /\ current_timestamp_ms' = pts_ms
                         /\ just_seeked' = FALSE
                         /\ Emit(scale_ok, TRUE)
                         /\ UNCHANGED discarded_timed
                    ELSE IF IsPreRoll(pts_ms)
                    THEN /\ UNCHANGED <<current_timestamp_ms, just_seeked>>
                         /\ Discard
                         /\ discarded_timed' = discarded_timed + 1
                    ELSE IF ReachedTarget(pts_ms, seek_target_ms)
                    THEN /\ current_timestamp_ms' = pts_ms
                         /\ just_seeked' = FALSE
                         /\ Emit(scale_ok, TRUE)
                         /\ UNCHANGED discarded_timed
                    ELSE /\ current_timestamp_ms' = pts_ms
                         /\ UNCHANGED just_seeked
                         /\ Discard
                         /\ discarded_timed' = discarded_timed + 1
            ELSE /\ current_timestamp_ms' = pts_ms
                 /\ Emit(scale_ok, FALSE)
                 /\ UNCHANGED <<just_seeked, frames_decoded_since_seek,
                                discarded_timed, discarded_untimed>>
       ELSE /\ UNCHANGED <<current_timestamp_ms, just_seeked,
                           frames_decoded_since_seek, discarded_timed>>
            /\ IF UntimedEmitted(just_seeked)
               THEN /\ Emit(scale_ok, FALSE)
                    /\ UNCHANGED discarded_untimed
               ELSE /\ discarded_untimed < MaxUntimed
                    /\ Discard
                    /\ discarded_untimed' = discarded_untimed + 1

next_frame_packet_error_is_final(own_stream, send_ok, produced) ==
    /\ decoder_pending = 0
    /\ ~container_eof
    /\ UNCHANGED <<time_base, current_timestamp_ms, just_seeked, seek_target_ms,
                   frames_decoded_since_seek, decoded, last_pts,
                   discarded_timed, discarded_untimed>>
    /\ IF own_stream /\ ~send_ok
       THEN /\ v_pc' = "idle"
            /\ v_result' = [kind |-> "SendErr", settled |-> FALSE]
            /\ container_eof' = TRUE
            /\ UNCHANGED decoder_pending
       ELSE /\ v_pc' = "next_frame"
            /\ decoder_pending' = IF own_stream THEN produced ELSE 0
            /\ UNCHANGED <<v_result, container_eof>>

\* receive_frame returned Err and packets().next() is Some: video.rs:158-165.
\* A packet of another stream is skipped; a packet of the video stream is
\* submitted and the decoder ends up holding `produced` frames, or rejects it.
next_frame_packet(own_stream, send_ok, produced) ==
    /\ decoder_pending = 0
    /\ ~container_eof
    /\ UNCHANGED <<time_base, current_timestamp_ms, just_seeked, seek_target_ms,
                   frames_decoded_since_seek, container_eof, decoded, last_pts,
                   discarded_timed, discarded_untimed>>
    /\ IF own_stream /\ ~send_ok
       THEN /\ v_pc' = "idle"
            /\ v_result' = [kind |-> "SendErr", settled |-> FALSE]
            /\ UNCHANGED decoder_pending
       ELSE /\ v_pc' = "next_frame"
            /\ decoder_pending' = IF own_stream THEN produced ELSE 0
            /\ UNCHANGED v_result

next_frame_end_before_receive ==
    /\ container_eof' = TRUE
    /\ v_pc' = "idle"
    /\ v_result' = [kind |-> "None", settled |-> FALSE]
    /\ UNCHANGED <<time_base, current_timestamp_ms, just_seeked, seek_target_ms,
                   frames_decoded_since_seek, decoder_pending, decoded, last_pts,
                   discarded_timed, discarded_untimed>>

\* receive_frame returned Err and packets().next() is None: video.rs:166.
next_frame_end ==
    /\ decoder_pending = 0
    /\ container_eof' = TRUE
    /\ v_pc' = "idle"
    /\ v_result' = [kind |-> "None", settled |-> FALSE]
    /\ UNCHANGED <<time_base, current_timestamp_ms, just_seeked, seek_target_ms,
                   frames_decoded_since_seek, decoder_pending, decoded, last_pts,
                   discarded_timed, discarded_untimed>>

\* Video::seek -> seek_to_ms_accurate: video.rs:253-267.
seek_to_ms_accurate(target_ms, seek_ok) ==
    /\ v_pc = "idle"
    /\ decoder_pending' = 0                                  \* decoder.flush()
    /\ UNCHANGED <<time_base, v_pc, decoded>>
    /\ v_result' = [kind |-> IF seek_ok THEN "SeekOk" ELSE "SeekErr",
                    settled |-> FALSE]
    /\ IF seek_ok
       THEN /\ container_eof' = FALSE
            /\ last_pts' = NoPts
       ELSE UNCHANGED <<container_eof, last_pts>>
    /\ IF SeekProceeds(seek_ok)
       THEN /\ SeekCommit(target_ms)
            /\ discarded_timed' = 0
            /\ discarded_untimed' = 0
       ELSE UNCHANGED <<just_seeked, seek_target_ms, frames_decoded_since_seek,
                        current_timestamp_ms, discarded_timed, discarded_untimed>>

get_current_timestamp_ms == current_timestamp_ms

VideoReceive == \E pts \in FramePts, scale_ok \in BOOLEAN :
                    next_frame_receive(pts, scale_ok)
VideoPacket == \E own \in BOOLEAN, ok \in BOOLEAN, n \in 0..MaxPending :
                    next_frame_packet(own, ok, n)
VideoSeek == \E t \in Targets, ok \in BOOLEAN : seek_to_ms_accurate(t, ok)

----------------------------------------------------------------------------
(* Audio: decoded buffer, cursor, output sink and controller.              *)

MaxDurationMs == 3
MaxFrames == 6

SampleRates == {1000, 1500}
AudioTargets == (0 - 1)..(MaxDurationMs + 1)

PublishEvery == 4000

Min(a, b) == IF a < b THEN a ELSE b
Max(a, b) == IF a > b THEN a ELSE b

ms_to_sample_pos_doubled_first(ms, rate) ==
    IF ms < 0 THEN 0 ELSE (ms * rate * 2) \div 1000

\* audio.rs:112-116.  (ms as f64 * (rate as f64 / 1000.0)) as usize, times 2.
\* A negative product saturates to 0 in the cast.
ms_to_sample_pos(ms, rate) ==
    IF ms <= 0 \/ rate = 0 THEN 0 ELSE F64ScaleTrunc(ms, rate, 1000) * 2

sample_pos_to_ms_not_halved(pos, rate) == (pos * 1000) \div rate

\* audio.rs:118-122.  ((pos / 2) as f64 * (1000.0 / rate as f64)) as i64.
sample_pos_to_ms(pos, rate) == F64ScaleTrunc(pos \div 2, 1000, rate)

NoCall == [op |-> "new", arg |-> 0, ret |-> 0, paused_before |-> FALSE]
NoSeek == [target_ms |-> 0, requested |-> 0, was_playing |-> FALSE,
           sample_pos |-> 0, paused_before |-> FALSE]

\* Sink::append as called at audio.rs:212 and 246: the source starts playing
\* at once when the sink's queue is empty, otherwise it waits behind the
\* sources already there.
sink_append(source) ==
    IF cursor.live
    THEN queued' = Append(queued, source) /\ UNCHANGED cursor
    ELSE cursor' = source /\ UNCHANGED queued

Publishes_every_pull(pos) == TRUE

\* audio.rs:151  if self.position % 4000 == 0
Publishes(pos) == pos % PublishEvery = 0

\* MemoryAudioSource::next, audio.rs:151-154, from position pos: the value
\* left in the time cell.
PublishedBy(pos, cell) ==
    IF Publishes(pos) THEN sample_pos_to_ms(pos, sample_rate) ELSE cell

NoIndex == 0 - 1

InBuffer_inclusive(position, len) == position <= len

\* audio.rs:148  if self.position < self.decoded_audio.samples.len()
InBuffer(position, len) == position < len

\* MemoryAudioSource::next, audio.rs:147-161, on a cursor at "position" with
\* "cell" in the shared time cell: the item returned, the buffer index read
\* (NoIndex when none is), and the position and cell it leaves.
MemoryAudioSource_next(position, cell) ==
    IF InBuffer(position, samples_len)
    THEN [item |-> "Some", index |-> position, position |-> position + 1,
          cell |-> PublishedBy(position, cell)]
    ELSE [item |-> "None", index |-> NoIndex, position |-> position,
          cell |-> cell]

\* rodio's Buffered, which repeat_infinite (audio.rs:210, 244) puts around the
\* cursor, reads its input in frames of at most this many elements when the
\* input reports no frame length (current_frame_len is None, audio.rs:166).
BufferedFrameLen == 32768

\* Where the frame that Buffered starts reading at "position" ends: a full
\* frame further, or where the cursor is exhausted.
FillTo(position) ==
    IF InBuffer(position, samples_len)
    THEN Min(position + BufferedFrameLen, samples_len)
    ELSE position

\* The first index after "position" at which a pull publishes.
NextPublishing(position) ==
    ((position \div PublishEvery) + 1) * PublishEvery

\* Buffered reading a frame from the cursor at "position" up to fill_to:
\* MemoryAudioSource::next is called for every index in between.  The call at
\* "position" publishes when the publish test holds there; the calls that
\* follow, up to the next publishing index, leave the cell alone.  Gives the
\* cursor's position and the time cell when the frame has been read.
RECURSIVE Buffered_fill(_, _, _)
Buffered_fill(position, fill_to, cell) ==
    IF position >= fill_to
    THEN [position |-> position, cell |-> cell]
    ELSE Buffered_fill(Min(fill_to, NextPublishing(position)), fill_to,
                       PublishedBy(position, cell))

\* Buffered reading one whole frame on the calling thread, as it does when
\* the source is built: every publish of the elements read happens here and
\* the last one stands.
Buffered_extract(position, cell) ==
    Buffered_fill(position, FillTo(position), cell)

\* MemoryAudioSource::new, audio.rs:132-141: the cursor starts at start_pos
\* and the constructor publishes the ms-equivalent of start_pos into the
\* shared cell.
MemoryAudioSource_new(start_pos) ==
    [position |-> start_pos, cell |-> sample_pos_to_ms(start_pos, sample_rate)]

\* source.repeat_infinite(), audio.rs:210 and 244: the cursor is wrapped in
\* Buffered, which reads the first frame at once.  The source handed to the
\* sink plays from start_pos ("play" is the next index it returns) out of
\* what has been read from the cursor so far (up to "position"); "fill_to"
\* is where the frame being read on the output thread ends, and "unpaused"
\* says that the sink's latest periodic access to the source found the sink
\* playing (FALSE before the first access, which precedes the first pull).
repeat_infinite(src) ==
    LET first == Buffered_extract(src.position, src.cell)
    IN  [source |-> [live |-> TRUE, start_pos |-> src.position,
                     position |-> first.position, play |-> src.position,
                     fill_to |-> first.position, unpaused |-> FALSE],
         cell |-> first.cell]

\* The source and the time cell that Audio::new (audio.rs:202-212) and
\* Audio::seek (audio.rs:238-244) leave for a cursor starting at start_pos.
NewSource(start_pos) == repeat_infinite(MemoryAudioSource_new(start_pos))

\* Audio::new, audio.rs:193-223, for a decoded file of the given shape.
AudioInitWith(rates, durations, lengths) ==
    /\ sample_rate \in rates
    /\ duration_ms \in durations
    /\ samples_len \in lengths
    /\ a_time_cell = NewSource(0).cell
    /\ cell_lock = "free"
    /\ cursor = NewSource(0).source
    /\ was_playing = TRUE
    /\ sink_paused = FALSE
    /\ a_pc = "idle"
    /\ a_seek = NoSeek
    /\ a_last = NoCall
    /\ pulled_since_attach = FALSE
    /\ queued = <<>>

AudioInit == AudioInitWith(SampleRates, 0..MaxDurationMs, 0..(2 * MaxFrames))

\* The single audio file used where only the video pipeline is explored.
AudioFixed == AudioInitWith({1000}, {0}, {0})

\* audio.rs:229  target_ms.max(0).min(self.decoded_audio.duration_ms)
ClampTarget(target_ms, dur) == Min(Max(target_ms, 0), dur)

ResumePaused_always_plays(playing) == FALSE

ResumePaused_inverted(playing) == playing

\* audio.rs:248  if was_playing { self.sink.play() } else { self.sink.pause() }
ResumePaused(playing) == ~playing

\* Audio::seek, audio.rs:226-233: record the play state, clamp, compute the
\* offset and write the target into the time cell.
seek_begin(target_ms) ==
    /\ a_pc = "idle"
    /\ cell_lock = "free"
    /\ LET playing == ~sink_paused
           clamped == ClampTarget(target_ms, duration_ms)
       IN  /\ was_playing' = playing
           /\ a_seek' = [target_ms |-> clamped, requested |-> target_ms,
                         was_playing |-> playing,
                         sample_pos |-> ms_to_sample_pos(clamped, sample_rate),
                         paused_before |-> sink_paused]
           /\ a_time_cell' = clamped
    /\ a_pc' = "stop"
    /\ UNCHANGED <<sample_rate, duration_ms, samples_len, queued, sink_paused, cursor,
                   a_last, pulled_since_attach, cell_lock>>

\* The source is inside a pull that is reading the next frame.
Filling(c) == c.position < c.fill_to

\* Audio::seek, audio.rs:235-236: sink.stop(); sink.clear().  The output
\* thread drops the old source between two pulls, at its next access to it;
\* clear() returns once the queue is empty and leaves the sink paused.  Until
\* then the output thread goes on pulling the old source.
\* What sink.stop(); sink.clear() leaves of the playing source: it is dropped.
Cleared(source) == [source EXCEPT !.live = FALSE]

seek_stop_clear ==
    /\ a_pc = "stop"
    /\ ~(cursor.live /\ Filling(cursor))
    /\ cell_lock = "free"
    /\ cursor' = Cleared(cursor)
    /\ queued' = IF Cleared(cursor).live THEN queued ELSE <<>>
    /\ sink_paused' = TRUE
    /\ a_pc' = "attach"
    /\ UNCHANGED <<sample_rate, duration_ms, samples_len, a_time_cell,
                   was_playing, a_seek, a_last, pulled_since_attach, cell_lock>>

\* Audio::seek, audio.rs:238-246: build the new cursor, wrap it (which reads
\* its first frame on this thread) and append it.
seek_attach ==
    /\ a_pc = "attach"
    /\ cell_lock = "free"
    /\ a_time_cell' = NewSource(a_seek.sample_pos).cell
    /\ sink_append(NewSource(a_seek.sample_pos).source)
    /\ pulled_since_attach' = FALSE
    /\ a_pc' = "resume"
    /\ UNCHANGED <<sample_rate, duration_ms, samples_len, was_playing,
                   sink_paused, a_seek, a_last, cell_lock>>

\* Audio::seek, audio.rs:248-252: resume according to the recorded state.
seek_resume ==
    /\ a_pc = "resume"
    /\ sink_paused' = ResumePaused(a_seek.was_playing)
    /\ a_pc' = "idle"
    /\ a_last' = [op |-> "seek", arg |-> a_seek.requested, ret |-> 0,
                  paused_before |-> a_seek.paused_before]
    /\ a_seek' = NoSeek
    /\ UNCHANGED <<sample_rate, duration_ms, samples_len, queued, a_time_cell,
                   was_playing, cursor, pulled_since_attach, cell_lock>>

\* Audio::get_current_time, audio.rs:255-257.
get_current_time ==
    /\ a_pc = "idle"
    /\ cell_lock = "free"
    /\ a_last' = [op |-> "get_current_time", arg |-> 0, ret |-> a_time_cell,
                  paused_before |-> sink_paused]
    /\ UNCHANGED <<sample_rate, duration_ms, samples_len, queued, a_time_cell,
                   was_playing, sink_paused, cursor, a_pc, a_seek,
                   pulled_since_attach, cell_lock>>

\* Audio::pause, audio.rs:259-262.
pause ==
    /\ a_pc = "idle"
    /\ was_playing' = FALSE
    /\ sink_paused' = TRUE
    /\ a_last' = [op |-> "pause", arg |-> 0, ret |-> 0,
                  paused_before |-> sink_paused]
    /\ UNCHANGED <<sample_rate, duration_ms, samples_len, queued, a_time_cell, cursor,
                   a_pc, a_seek, pulled_since_attach, cell_lock>>

\* Audio::play, audio.rs:264-267.
play ==
    /\ a_pc = "idle"
    /\ was_playing' = TRUE
    /\ sink_paused' = FALSE
    /\ a_last' = [op |-> "play", arg |-> 0, ret |-> 0,
                  paused_before |-> sink_paused]
    /\ UNCHANGED <<sample_rate, duration_ms, samples_len, queued, a_time_cell, cursor,
                   a_pc, a_seek, pulled_since_attach, cell_lock>>

\* Repeat::next of repeat_infinite (audio.rs:210, 244) on the playing source.
\* The next element comes out of what Buffered has read; when the element
\* returned is the last one read, Buffered goes on to read the following
\* frame from the cursor, on the pulling thread, before the call returns.
\* When everything read has been played and the cursor is exhausted, Repeat
\* replays what was read from start_pos: the cursor itself is not pulled
\* again, so nothing is published.  Gives the item, the buffer index returned
\* (NoIndex when none is) and the source afterwards.
Repeat_next(c) ==
    LET from == IF c.play < c.position THEN c.play ELSE c.start_pos
    IN  IF from < c.position
        THEN [item |-> "Some", index |-> from,
              source |-> [c EXCEPT !.play = from + 1,
                                   !.fill_to = IF from + 1 = c.position
                                               THEN FillTo(c.position)
                                               ELSE c.fill_to]]
        ELSE [item |-> "None", index |-> NoIndex, source |-> c]

\* The sink's periodic access to the playing source (run by the output thread
\* before the first pull and every 5 ms of samples after it): the source
\* takes over the sink's pause flag.
output_access ==
    /\ cursor.live
    /\ ~Filling(cursor)
    /\ cursor.unpaused = sink_paused
    /\ cursor' = [cursor EXCEPT !.unpaused = ~sink_paused]
    /\ UNCHANGED <<a_time_cell, cell_lock, pulled_since_attach, queued>>

\* The output thread asks the playing source for one element.  A source that
\* returns nothing even after the restart has ended: it leaves the queue and
\* the next queued source, if any, starts playing.
output_next ==
    /\ cursor.live
    /\ ~Filling(cursor)
    /\ cursor.unpaused
    /\ LET r == Repeat_next(cursor)
       IN  IF r.item = "Some"
           THEN /\ cursor' = r.source
                /\ pulled_since_attach' = TRUE
                /\ UNCHANGED queued
           ELSE /\ IF queued = <<>>
                   THEN /\ cursor' = [cursor EXCEPT !.live = FALSE]
                        /\ UNCHANGED queued
                   ELSE /\ cursor' = Head(queued)
                        /\ queued' = Tail(queued)
                /\ UNCHANGED pulled_since_attach
    /\ UNCHANGED <<a_time_cell, cell_lock>>

\* The output thread, reading a frame from the cursor inside a pull: at an
\* index that passes the publish test MemoryAudioSource::next takes the
\* cell's lock (audio.rs:153); otherwise the cursor is pulled on, up to the
\* next publishing index or the end of the frame.
output_fill ==
    /\ cursor.live
    /\ Filling(cursor)
    /\ cell_lock = "free"
    /\ IF Publishes(cursor.position)
       THEN cell_lock' = "output" /\ UNCHANGED cursor
       ELSE /\ cursor' = [cursor EXCEPT !.position =
                              Min(cursor.fill_to,
                                  NextPublishing(cursor.position))]
            /\ UNCHANGED cell_lock
    /\ UNCHANGED <<a_time_cell, pulled_since_attach, queued>>

\* The output thread holding the lock at audio.rs:153: the time is stored,
\* the lock released and the element read (audio.rs:153-157); the pulls that
\* follow, up to the next publishing index or the end of the frame, do not
\* touch the cell.
output_publish ==
    /\ cursor.live
    /\ cell_lock = "output"
    /\ a_time_cell' = PublishedBy(cursor.position, a_time_cell)
    /\ cell_lock' = "free"
    /\ cursor' = [cursor EXCEPT !.position =
                      Min(cursor.fill_to, NextPublishing(cursor.position))]
    /\ UNCHANGED <<pulled_since_attach, queued>>

\* One step of the audio output thread.
output_pull ==
    /\ output_access \/ output_next \/ output_fill \/ output_publish
    /\ UNCHANGED <<sample_rate, duration_ms, samples_len, was_playing,
                   sink_paused, a_pc, a_seek, a_last>>

AudioSeek == \E t \in AudioTargets : seek_begin(t)

\* The video pipeline as constructed, where only the audio side is explored.
VideoFixed ==
    /\ VideoInit
    /\ time_base = MS_TIME_BASE

----------------------------------------------------------------------------

(* VideoPlayer: the per-cycle frame update and the sync monitor.            *)

\* Caps on FpsCounter.frame_count and on the frames decoded while a seek
\* settles, in the player.
MaxFrameCount == 2
MaxSettleFrames == 1

SyncEvery == 150
SyncThresholdMs == 200

\* A container time base of 201 ms per tick, so that video timestamps fall on
\* both sides of the drift threshold for audio times of a few ms.
PlayerTimeBase == [num |-> 201, den |-> 1000]

Abs(x) == IF x < 0 THEN 0 - x ELSE x

NoCycle == [accepted |-> FALSE, compared |-> FALSE, resync |-> FALSE,
            video_ms |-> 0, audio_ms |-> 0, loaded |-> FALSE]

\* VideoPlayer after load_video (main.rs:94-111) with a fresh FpsCounter
\* (main.rs:30-37); Audio::new may have failed, leaving no audio attached.
PlayerInit ==
    /\ audio_attached \in BOOLEAN
    /\ paused = FALSE
    /\ frame_count = 0
    /\ p_pc = "idle"
    /\ p_last = NoCycle

\* The player as constructed, where it is not explored.
PlayerFixed ==
    /\ audio_attached = TRUE
    /\ paused = FALSE
    /\ frame_count = 0
    /\ p_pc = "idle"
    /\ p_last = NoCycle

SyncDue_every_count(count) == TRUE

\* main.rs:159  self.fps_counter.frame_count % 150 == 0
SyncDue(count) == count % SyncEvery = 0

SyncNeeded_inclusive(video_time_ms, audio_time_ms) ==
    Abs(video_time_ms - audio_time_ms) >= SyncThresholdMs

\* main.rs:165-166  (video_time_ms - audio_time_ms).abs() > 200
SyncNeeded(video_time_ms, audio_time_ms) ==
    Abs(video_time_ms - audio_time_ms) > SyncThresholdMs

SyncSeekTarget_audio_time(video_time_ms, audio_time_ms) == audio_time_ms

\* main.rs:167  audio.seek(video_time_ms)
SyncSeekTarget(video_time_ms, audio_time_ms) == video_time_ms

\* Start of update_video_frame, main.rs:129-130, with
\* should_process_next_frame (main.rs:113-127): a paused player processes no
\* frame; otherwise one is processed when the frame interval has elapsed.
update_begin(due) ==
    /\ p_pc = "idle"
    /\ p_last' = NoCycle
    /\ p_pc' = IF ~paused /\ due THEN "frame" ELSE "sync"
    /\ UNCHANGED <<audio_attached, paused, frame_count>>

\* main.rs:132-155 once a step of video.next_frame() has been taken: while
\* the call is still looping the player waits; when it returned Some(Ok(frame))
\* the frame is accepted and FpsCounter::update (main.rs:39-49) counts it,
\* resetting the count when a second has elapsed.
after_next_frame ==
    /\ p_pc = "frame"
    /\ frames_decoded_since_seek' <= MaxSettleFrames
    /\ UNCHANGED <<audio_attached, paused>>
    /\ IF v_pc' # "idle"
       THEN UNCHANGED <<frame_count, p_pc, p_last>>
       ELSE /\ p_pc' = "sync"
            /\ IF v_result'.kind = "Frame"
               THEN /\ p_last' = [p_last EXCEPT !.accepted = TRUE]
                    /\ \E second_elapsed \in BOOLEAN :
                         frame_count' = IF second_elapsed THEN 0
                                        ELSE frame_count + 1
                    /\ frame_count' <= MaxFrameCount
               ELSE UNCHANGED <<frame_count, p_last>>

\* The sync monitor, main.rs:159-166: both clocks are read (the audio time
\* under the cell's lock, released again by get_current_time) and compared.
\* The output thread runs on between this read and the seek that follows.
sync_check ==
    /\ p_pc = "sync"
    /\ UNCHANGED <<audio_attached, paused, frame_count, audio_vars>>
    /\ IF ~paused /\ SyncDue(frame_count) /\ audio_attached
       THEN LET video_time_ms == get_current_timestamp_ms
                audio_time_ms == a_time_cell
            IN  /\ cell_lock = "free"
                /\ IF SyncNeeded(video_time_ms, audio_time_ms)
                   THEN /\ p_pc' = "sync_seek"
                        /\ p_last' = [p_last EXCEPT !.compared = TRUE,
                                                    !.resync = TRUE,
                                                    !.video_ms = video_time_ms,
                                                    !.audio_ms = audio_time_ms]
                   ELSE /\ p_pc' = "idle"
                        /\ p_last' = [p_last EXCEPT !.compared = TRUE,
                                                    !.video_ms = video_time_ms,
                                                    !.audio_ms = audio_time_ms]
       ELSE /\ p_pc' = "idle"
            /\ UNCHANGED p_last

\* main.rs:167  audio.seek(video_time_ms) with the values read by the
\* comparison.
sync_seek ==
    /\ p_pc = "sync_seek"
    /\ seek_begin(SyncSeekTarget(p_last.video_ms, p_last.audio_ms))
    /\ p_pc' = "resync"
    /\ UNCHANGED <<audio_attached, paused, frame_count, p_last>>

\* The rest of an Audio::seek issued by the player; control returns to the
\* event loop when the seek has resumed the sink.
player_seek_step ==
    /\ p_pc \in {"resync", "user_seek"}
    /\ seek_stop_clear \/ seek_attach \/ seek_resume
    /\ p_pc' = IF a_pc' = "idle" THEN "idle" ELSE p_pc
    /\ UNCHANGED <<audio_attached, paused, frame_count, p_last>>

\* Keyboard and button seeks, main.rs:357-373, 899-921: video.seek(target_ms)
\* (an error is only printed), then audio.seek(target_ms) when audio is
\* attached.
user_seek(target_ms, seek_ok) ==
    /\ p_pc = "idle"
    /\ seek_to_ms_accurate(target_ms, seek_ok)
    /\ IF audio_attached
       THEN seek_begin(target_ms) /\ p_pc' = "user_seek"
       ELSE UNCHANGED <<audio_vars, p_pc>>
    /\ UNCHANGED <<audio_attached, paused, frame_count, p_last>>

\* Space key and play button, main.rs:392-400, 888-897.
toggle_pause ==
    /\ p_pc = "idle"
    /\ paused' = ~paused
    /\ IF audio_attached
       THEN IF paused' THEN pause ELSE play
       ELSE UNCHANGED audio_vars
    /\ UNCHANGED <<audio_attached, frame_count, p_pc, p_last>>

\* load_video, main.rs:94-111, opening a file of the same shape as the one
\* loaded: when Video::new fails the `?` returns before anything is touched;
\* otherwise the Video (video.rs:90-104) and the Audio (audio.rs:193-223, or
\* none when Audio::new fails) are replaced by newly constructed ones and
\* paused is cleared.  The FpsCounter is left as it is.
load_video(video_ok, audio_ok) ==
    /\ p_pc = "idle"
    /\ IF ~video_ok
       THEN UNCHANGED <<video_vars, audio_vars, player_vars>>
       ELSE /\ current_timestamp_ms' = 0
            /\ just_seeked' = FALSE
            /\ seek_target_ms' = 0
            /\ frames_decoded_since_seek' = 0
            /\ decoder_pending' = 0
            /\ container_eof' = FALSE
            /\ v_result' = [kind |-> "Start", settled |-> FALSE]
            /\ decoded' = NoPts
            /\ last_pts' = NoPts
            /\ discarded_timed' = 0
            /\ discarded_untimed' = 0
            /\ a_time_cell' = NewSource(0).cell
            /\ cell_lock' = "free"
            /\ cursor' = NewSource(0).source
            /\ was_playing' = TRUE
            /\ sink_paused' = FALSE
            /\ a_seek' = NoSeek
            /\ a_last' = NoCall
            /\ pulled_since_attach' = FALSE
            /\ queued' = <<>>
            /\ audio_attached' = audio_ok
            /\ paused' = FALSE
            /\ p_last' = [NoCycle EXCEPT !.loaded = TRUE]
            /\ UNCHANGED <<time_base, v_pc, sample_rate, duration_ms,
                           samples_len, a_pc, frame_count, p_pc>>

LoadVideo == \E video_ok \in BOOLEAN, audio_ok \in BOOLEAN :
                 load_video(video_ok, audio_ok)

\* The audio output thread, running whenever a sink exists.
player_output_pull ==
    /\ audio_attached
    /\ output_pull
    /\ UNCHANGED player_vars

UpdateBegin == \E due \in BOOLEAN : update_begin(due)
PlayerReceive == VideoReceive /\ after_next_frame
PlayerPacket == VideoPacket /\ after_next_frame
PlayerEnd == next_frame_end /\ after_next_frame
\* Targets of the user's seeks: the start, the first millisecond and the
\* largest target.
PlayerTargets == {0, 1, MaxTargetMs}

UserSeek == \E t \in PlayerTargets, ok \in BOOLEAN : user_seek(t, ok)

MaxFrameSamples == 3
MaxLoadLen == 12

\* audio.rs:65-72 and 86-93: what one decoded frame of n samples per channel
\* adds to the buffer.  Plane 0 of the planar frame holds n samples; a mono
\* stream pushes each of them twice, any other stream appends the plane as
\* it is.
FrameElements(channels, n) == IF channels = 1 THEN 2 * n ELSE n

\* Time bases of the audio stream (audio.rs:27).
AudioTimeBases == { [num |-> 1, den |-> 1000], [num |-> 1, den |-> 500],
                    [num |-> 1, den |-> 2000] }

\* Start of DecodedAudio::new, audio.rs:21-40.
LoadInit ==
    /\ load_pc = "packets"
    /\ load_channels \in {1, 2}
    /\ load_len = 0
    /\ load_duration_ms = 0
    /\ load_time_base \in AudioTimeBases

\* One packet of the loop at audio.rs:42-58: a packet of another stream is
\* skipped; the duration follows the largest packet pts; a packet the decoder
\* rejects is skipped, an accepted one is followed by the receive loop.
load_packet(own_stream, pts, send_ok) ==
    /\ load_pc = "packets"
    /\ IF own_stream
       THEN /\ load_duration_ms' =
                  IF pts # NoPts
                     /\ timestamp_to_ms(pts, load_time_base) > load_duration_ms
                  THEN timestamp_to_ms(pts, load_time_base)
                  ELSE load_duration_ms
            /\ load_pc' = IF send_ok THEN "frames" ELSE "packets"
       ELSE UNCHANGED <<load_duration_ms, load_pc>>
    /\ UNCHANGED <<load_channels, load_len, load_time_base>>

\* One pass of the receive loop, audio.rs:60-99, for a frame of n samples per
\* channel: a planar f32 frame is appended directly, any other format after
\* conversion; a frame whose conversion fails is dropped.
load_frame(n, planar_f32, convert_ok) ==
    /\ load_pc = "frames"
    /\ IF planar_f32 \/ convert_ok
       THEN /\ load_len' = load_len + FrameElements(load_channels, n)
            /\ load_len' <= MaxLoadLen
       ELSE UNCHANGED load_len
    /\ UNCHANGED <<load_pc, load_channels, load_duration_ms, load_time_base>>

\* receive_frame returned Err: back to the packet loop, audio.rs:60.
load_drained ==
    /\ load_pc = "frames"
    /\ load_pc' = "packets"
    /\ UNCHANGED <<load_channels, load_len, load_duration_ms, load_time_base>>

\* input.packets() is exhausted: the buffer is returned, audio.rs:102-109.
load_end ==
    /\ load_pc = "packets"
    /\ load_pc' = "done"
    /\ UNCHANGED <<load_channels, load_len, load_duration_ms, load_time_base>>

LoadPacket == \E own \in BOOLEAN, pts \in FramePts, ok \in BOOLEAN :
                  load_packet(own, pts, ok)
LoadFrame == \E n \in 0..MaxFrameSamples, planar \in BOOLEAN, ok \in BOOLEAN :
                 load_frame(n, planar, ok)

\* DecodedAudio::new as it stands once loading has finished, where the load
\* is not explored.
LoadFixed ==
    /\ load_pc = "done"
    /\ load_channels = 2
    /\ load_len = 0
    /\ load_duration_ms = 0
    /\ load_time_base = MS_TIME_BASE

MaxScanPackets == 3

\* Container durations in AV_TIME_BASE units (microseconds) and stream frame
\* rates offered to Video::new.
ReportedDurations == {0, 295000, 329000, 331000, 420000, 2000000}
FrameRates == { [num |-> 30, den |-> 1], [num |-> 25, den |-> 1],
                [num |-> 24000, den |-> 1001], [num |-> 100, den |-> 3],
                [num |-> 0, den |-> 1], [num |-> 0, den |-> 0] }

\* Video::get_framerate, video.rs:193-210: avg_frame_rate, or 30 when its
\* denominator is zero.
get_framerate(rate) == IF rate.den # 0 THEN rate ELSE [num |-> 30, den |-> 1]

\* video.rs:68  a frame rate of zero makes 1000.0 / fps infinite; the cast
\* saturates to i64::MAX (i64::MIN for -0.0) and the multiplication by 10
\* overflows.
IntervalOverflows(rate) == get_framerate(rate).num = 0

\* video.rs:68  (1000.0 / fps) as i64 * 10: the frame interval is computed
\* in f64 and truncated toward zero to whole milliseconds before it is
\* multiplied.  Where the multiplication overflows this is the value a build
\* without overflow checks wraps to.
min_reasonable_duration(rate) ==
    LET fps == get_framerate(rate)
    IN  IF fps.num = 0 THEN (IF fps.den > 0 THEN 0 - 10 ELSE 0)
        ELSE IF (fps.num > 0) = (fps.den > 0)
        THEN F64FrameInterval(Abs(fps.num), Abs(fps.den)) * 10
        ELSE 0 - F64FrameInterval(Abs(fps.num), Abs(fps.den)) * 10

\* video.rs:65
reported_duration(raw) == timestamp_to_ms(raw, AV_TIME_BASE_Q)

ScanUpdate_max(last, pts_ms) == IF pts_ms > last THEN pts_ms ELSE last

\* video.rs:182  last_pts = pts.rescale(time_base, MS_TIME_BASE)
ScanUpdate(last, pts_ms) == pts_ms

\* Video::new before the duration is settled, video.rs:46-65.
DurInit ==
    /\ d_pc = "open"
    /\ d_reported \in ReportedDurations
    /\ d_rate \in FrameRates
    /\ d_last_pts = 0
    /\ d_max_pts = 0
    /\ d_scanned = 0
    /\ d_duration_ms = 0
    /\ d_at_start = TRUE

\* video.rs:67-75: keep the reported duration or start the packet scan.  An
\* overflowing threshold panics in a build with overflow checks and wraps in
\* one without.
duration_decide(overflow_checks) ==
    /\ d_pc = "open"
    /\ IF IntervalOverflows(d_rate) /\ overflow_checks
       THEN /\ d_pc' = "panicked"
            /\ UNCHANGED d_duration_ms
       ELSE IF reported_duration(d_reported) < min_reasonable_duration(d_rate)
       THEN /\ d_pc' = "scan"
            /\ UNCHANGED d_duration_ms
       ELSE /\ d_pc' = "done"
            /\ d_duration_ms' = reported_duration(d_reported)
    /\ UNCHANGED <<d_reported, d_rate, d_last_pts, d_max_pts, d_scanned,
                   d_at_start>>

\* One packet of the scan in calculate_duration, video.rs:179-185.
scan_packet(own_stream, pts) ==
    /\ d_pc = "scan"
    /\ d_scanned < MaxScanPackets
    /\ d_scanned' = d_scanned + 1
    /\ d_at_start' = FALSE
    /\ IF own_stream /\ pts # NoPts
       THEN LET pts_ms == Rescale(pts, time_base, MS_TIME_BASE)
            IN  /\ d_last_pts' = ScanUpdate(d_last_pts, pts_ms)
                /\ d_max_pts' = Max(d_max_pts, pts_ms)
       ELSE UNCHANGED <<d_last_pts, d_max_pts>>
    /\ UNCHANGED <<d_pc, d_reported, d_rate, d_duration_ms>>

\* End of the scan, video.rs:187-189: input_context.seek(0, ..0).unwrap()
\* puts the container back at its start or panics; last_pts is the duration.
scan_end(seek_ok) ==
    /\ d_pc = "scan"
    /\ IF seek_ok
       THEN /\ d_pc' = "done"
            /\ d_at_start' = TRUE
            /\ d_duration_ms' = d_last_pts
       ELSE /\ d_pc' = "panicked"
            /\ UNCHANGED <<d_at_start, d_duration_ms>>
    /\ UNCHANGED <<d_reported, d_rate, d_last_pts, d_max_pts, d_scanned>>

DurationDecide == \E overflow_checks \in BOOLEAN :
                      duration_decide(overflow_checks)
ScanPacket == \E own \in BOOLEAN, pts \in FramePts : scan_packet(own, pts)
ScanEnd == \E ok \in BOOLEAN : scan_end(ok)

\* The duration of the video as settled by Video::new, where that is not
\* explored: a container reporting 0 with no packet to scan.
DurFixed ==
    /\ d_pc = "done"
    /\ d_reported = 0
    /\ d_rate = [num |-> 30, den |-> 1]
    /\ d_last_pts = 0
    /\ d_max_pts = 0
    /\ d_scanned = 0
    /\ d_duration_ms = 0
    /\ d_at_start = TRUE

MaxWidth == 2
MaxHeight == 2
MaxLineSize == 7
MaxSrcLen == 8

\* Source buffers of length n: two byte patterns.
SrcBuffers(n) == { [i \in 1..n |-> (i * k) % 256] : k \in {1, 85} }

\* video.rs:240-241, for the pixel in column col of row y.
SrcIdx(y, col, line_size) == y * line_size + col * 3
DstIdx(y, col, width) == (y * width + col) * 4

InRange_first_byte_only(src_idx, dst_idx, src_len, dst_len) ==
    src_idx < src_len /\ dst_idx < dst_len

\* video.rs:243  if src_idx + 2 < src.len() && dst_idx + 3 < dst.len()
InRange(src_idx, dst_idx, src_len, dst_len) ==
    src_idx + 2 < src_len /\ dst_idx + 3 < dst_len

\* convert_frame calling the conversion, video.rs:222-226: the destination is
\* width * height * 4 zero bytes; data(0) and stride(0) come from the scaler.
RgbInit ==
    /\ c_pc = "loop"
    /\ c_width \in 0..MaxWidth
    /\ c_height \in 0..MaxHeight
    /\ c_line_size \in 0..MaxLineSize
    /\ \E n \in 0..MaxSrcLen : c_src \in SrcBuffers(n)
    /\ c_dst = [i \in 1..(c_width * c_height * 4) |-> 0]
    /\ c_x = 0
    /\ c_y = 0
    /\ c_out_of_range = FALSE

\* The body of the loops at video.rs:235-249 for one pixel; the chunked
\* column loop (x stepping by 8, i inside the chunk) visits the columns
\* x + i of a row in increasing order, c_x being that column.  An indexing
\* outside a buffer panics.
convert_pixel ==
    /\ c_pc = "loop"
    /\ c_y < c_height
    /\ c_x < c_width
    /\ LET src_idx == SrcIdx(c_y, c_x, c_line_size)
           dst_idx == DstIdx(c_y, c_x, c_width)
       IN  IF InRange(src_idx, dst_idx, Len(c_src), Len(c_dst))
           THEN IF src_idx + 2 < Len(c_src) /\ dst_idx + 3 < Len(c_dst)
                THEN /\ c_dst' = [c_dst EXCEPT
                                     ![dst_idx + 1] = c_src[src_idx + 1],
                                     ![dst_idx + 2] = c_src[src_idx + 2],
                                     ![dst_idx + 3] = c_src[src_idx + 3],
                                     ![dst_idx + 4] = 255]
                     /\ c_pc' = "loop"
                     /\ UNCHANGED c_out_of_range
                ELSE /\ c_pc' = "panicked"
                     /\ c_out_of_range' = TRUE
                     /\ UNCHANGED c_dst
           ELSE /\ c_pc' = "loop"
                /\ UNCHANGED <<c_dst, c_out_of_range>>
    /\ IF c_x + 1 < c_width
       THEN c_x' = c_x + 1 /\ c_y' = c_y
       ELSE c_x' = 0 /\ c_y' = c_y + 1
    /\ UNCHANGED <<c_width, c_height, c_line_size, c_src>>

\* The loops are over: video.rs:235 with y = height (or no column at all).
convert_done ==
    /\ c_pc = "loop"
    /\ c_y >= c_height \/ c_width = 0
    /\ c_pc' = "done"
    /\ UNCHANGED <<c_width, c_height, c_line_size, c_src, c_dst, c_x, c_y,
                   c_out_of_range>>

NoSnapshot == [current_timestamp_ms |-> 0, just_seeked |-> FALSE,
               seek_target_ms |-> 0, frames_decoded_since_seek |-> 0]

\* The seek-recovery fields of Video as a next_frame call finds them.
Snapshot == [current_timestamp_ms |-> current_timestamp_ms,
             just_seeked |-> just_seeked,
             seek_target_ms |-> seek_target_ms,
             frames_decoded_since_seek |-> frames_decoded_since_seek]

\* No call observed, where single calls are not followed.
CallFixed ==
    /\ v_call = NoSnapshot
    /\ v_send_failed = FALSE

\* Following one step of Video::next_frame (video.rs:123-170): the first
\* step of a call records the state the call found, and a call returning the
\* decoder's submission error is remembered.
track_call ==
    /\ v_call' = IF v_pc = "idle" THEN Snapshot ELSE v_call
    /\ v_send_failed' = (v_send_failed
                            \/ (v_pc' = "idle" /\ v_result'.kind = "SendErr"))
    /\ frames_decoded_since_seek' <= MaxSettleFrames

\* The colour conversion at rest, where it is not explored.
RgbFixed ==
    /\ c_pc = "done"
    /\ c_width = 0
    /\ c_height = 0
    /\ c_line_size = 0
    /\ c_src = <<>>
    /\ c_dst = <<>>
    /\ c_x = 0
    /\ c_y = 0
    /\ c_out_of_range = FALSE

----------------------------------------------------------------------------

VideoNext ==
    \/ (VideoReceive /\ UNCHANGED <<audio_vars, player_vars, load_vars, dur_vars, rgb_vars, call_vars>>)
    \/ (VideoPacket /\ UNCHANGED <<audio_vars, player_vars, load_vars, dur_vars, rgb_vars, call_vars>>)
    \/ (next_frame_end /\ UNCHANGED <<audio_vars, player_vars, load_vars, dur_vars, rgb_vars, call_vars>>)
    \/ (VideoSeek /\ UNCHANGED <<audio_vars, player_vars, load_vars, dur_vars, rgb_vars, call_vars>>)

\* Video::new with the audio side held fixed.
InitVideo == VideoInit /\ AudioFixed /\ PlayerFixed /\ LoadFixed /\ DurFixed
             /\ RgbFixed
             /\ CallFixed

SpecVideo == InitVideo /\ [][VideoNext]_vars

AudioNext ==
    \/ (AudioSeek /\ UNCHANGED <<video_vars, player_vars, load_vars, dur_vars, rgb_vars, call_vars>>)
    \/ (seek_stop_clear /\ UNCHANGED <<video_vars, player_vars, load_vars, dur_vars, rgb_vars, call_vars>>)
    \/ (seek_attach /\ UNCHANGED <<video_vars, player_vars, load_vars, dur_vars, rgb_vars, call_vars>>)
    \/ (seek_resume /\ UNCHANGED <<video_vars, player_vars, load_vars, dur_vars, rgb_vars, call_vars>>)
    \/ (get_current_time /\ UNCHANGED <<video_vars, player_vars, load_vars, dur_vars, rgb_vars, call_vars>>)
    \/ (pause /\ UNCHANGED <<video_vars, player_vars, load_vars, dur_vars, rgb_vars, call_vars>>)
    \/ (play /\ UNCHANGED <<video_vars, player_vars, load_vars, dur_vars, rgb_vars, call_vars>>)
    \/ (output_pull /\ UNCHANGED <<video_vars, player_vars, load_vars, dur_vars, rgb_vars, call_vars>>)

\* Audio::new with the video side held fixed.
InitAudio == AudioInit /\ VideoFixed /\ PlayerFixed /\ LoadFixed /\ DurFixed
             /\ RgbFixed
             /\ CallFixed

SpecAudio == InitAudio /\ [][AudioNext]_vars

PlayerNext ==
    \/ (UpdateBegin /\ UNCHANGED <<video_vars, audio_vars, load_vars, dur_vars, rgb_vars, call_vars>>)
    \/ (PlayerReceive /\ UNCHANGED <<audio_vars, load_vars, dur_vars, rgb_vars, call_vars>>)
    \/ (PlayerPacket /\ UNCHANGED <<audio_vars, load_vars, dur_vars, rgb_vars, call_vars>>)
    \/ (PlayerEnd /\ UNCHANGED <<audio_vars, load_vars, dur_vars, rgb_vars, call_vars>>)
    \/ (sync_check /\ UNCHANGED <<video_vars, load_vars, dur_vars, rgb_vars, call_vars>>)
    \/ (sync_seek /\ UNCHANGED <<video_vars, load_vars, dur_vars, rgb_vars, call_vars>>)
    \/ (player_seek_step /\ UNCHANGED <<video_vars, load_vars, dur_vars, rgb_vars, call_vars>>)
    \/ (UserSeek /\ UNCHANGED <<load_vars, dur_vars, rgb_vars, call_vars>>)
    \/ (toggle_pause /\ UNCHANGED <<video_vars, load_vars, dur_vars, rgb_vars, call_vars>>)
    \/ (player_output_pull /\ UNCHANGED <<video_vars, load_vars, dur_vars, rgb_vars, call_vars>>)

\* A loaded player: one video stream on the 201 ms time base and one short
\* audio file.
InitPlayer ==
    /\ VideoInitWith({PlayerTimeBase})
    /\ AudioInitWith({1000}, {MaxDurationMs}, {2})
    /\ PlayerInit
    /\ LoadFixed
    /\ DurFixed
    /\ RgbFixed
    /\ CallFixed

SpecPlayer == InitPlayer /\ [][PlayerNext]_vars

\* An audio duration longer than the video timestamps the player reaches.
LongDurationMs == 300

\* Frames in the audio file of the resync runs: its buffer reaches past the
\* first publishing index after the start.
ResyncFrames == 2001

\* Elements of a source the output thread plays in the resync runs.
MaxPlayed == 2

\* A loaded player whose audio track holds a second of samples and more;
\* duration_ms is the largest packet timestamp (audio.rs:47-52), which is
\* either below the video timestamps or above them.
InitResync ==
    /\ VideoInitWith({PlayerTimeBase})
    /\ AudioInitWith(SampleRates, {1, LongDurationMs}, {2 * ResyncFrames})
    /\ PlayerInit
    /\ LoadFixed
    /\ DurFixed
    /\ RgbFixed
    /\ CallFixed

\* The output thread in the resync runs: it plays the first elements of each
\* source attached.
resync_output_pull ==
    /\ cursor.play - cursor.start_pos < MaxPlayed
    /\ player_output_pull

\* Playback left to run without seeks from the user: frames are decoded and
\* accepted, the sync monitor corrects the audio, the user may pause and
\* resume, and the output thread pulls samples.
ResyncNext ==
    \/ (UpdateBegin /\ UNCHANGED <<video_vars, audio_vars, load_vars, dur_vars, rgb_vars, call_vars>>)
    \/ (PlayerReceive /\ UNCHANGED <<audio_vars, load_vars, dur_vars, rgb_vars, call_vars>>)
    \/ (PlayerPacket /\ UNCHANGED <<audio_vars, load_vars, dur_vars, rgb_vars, call_vars>>)
    \/ (PlayerEnd /\ UNCHANGED <<audio_vars, load_vars, dur_vars, rgb_vars, call_vars>>)
    \/ (sync_check /\ UNCHANGED <<video_vars, load_vars, dur_vars, rgb_vars, call_vars>>)
    \/ (sync_seek /\ UNCHANGED <<video_vars, load_vars, dur_vars, rgb_vars, call_vars>>)
    \/ (player_seek_step /\ UNCHANGED <<video_vars, load_vars, dur_vars, rgb_vars, call_vars>>)
    \/ (toggle_pause /\ UNCHANGED <<video_vars, load_vars, dur_vars, rgb_vars, call_vars>>)
    \/ (resync_output_pull /\ UNCHANGED <<video_vars, load_vars, dur_vars, rgb_vars, call_vars>>)

SpecResync == InitResync /\ [][ResyncNext]_vars

\* The player with files being opened while it runs.
PlayerLoadNext ==
    \/ PlayerNext
    \/ (LoadVideo /\ UNCHANGED <<load_vars, dur_vars, rgb_vars, call_vars>>)

SpecPlayerLoad == InitPlayer /\ [][PlayerLoadNext]_vars

LoadNext ==
    \/ (LoadPacket /\ UNCHANGED <<video_vars, audio_vars, player_vars, dur_vars, rgb_vars, call_vars>>)
    \/ (LoadFrame /\ UNCHANGED <<video_vars, audio_vars, player_vars, dur_vars, rgb_vars, call_vars>>)
    \/ (load_drained /\ UNCHANGED <<video_vars, audio_vars, player_vars, dur_vars, rgb_vars, call_vars>>)
    \/ (load_end /\ UNCHANGED <<video_vars, audio_vars, player_vars, dur_vars, rgb_vars, call_vars>>)

\* DecodedAudio::new decoding a file, everything else held fixed.
InitLoad == LoadInit /\ VideoFixed /\ AudioFixed /\ PlayerFixed /\ DurFixed
            /\ RgbFixed
            /\ CallFixed

SpecLoad == InitLoad /\ [][LoadNext]_vars

CallNext ==
    \/ (VideoReceive /\ track_call
            /\ UNCHANGED <<audio_vars, player_vars, load_vars, dur_vars,
                           rgb_vars>>)
    \/ (VideoPacket /\ track_call
            /\ UNCHANGED <<audio_vars, player_vars, load_vars, dur_vars,
                           rgb_vars>>)
    \/ (next_frame_end /\ track_call
            /\ UNCHANGED <<audio_vars, player_vars, load_vars, dur_vars,
                           rgb_vars>>)
    \/ (VideoSeek
            /\ UNCHANGED <<audio_vars, player_vars, load_vars, dur_vars,
                           rgb_vars, call_vars>>)

\* Video::new, with every next_frame call followed from its first step.
InitCall ==
    /\ VideoInit
    /\ AudioFixed
    /\ PlayerFixed
    /\ LoadFixed
    /\ DurFixed
    /\ RgbFixed
    /\ CallFixed

SpecCall == InitCall /\ [][CallNext]_vars

RgbNext ==
    \/ (convert_pixel /\ UNCHANGED <<video_vars, audio_vars, player_vars,
                                      load_vars, dur_vars, call_vars>>)
    \/ (convert_done /\ UNCHANGED <<video_vars, audio_vars, player_vars,
                                     load_vars, dur_vars, call_vars>>)

\* One colour conversion, everything else held fixed.
InitRgb ==
    /\ RgbInit
    /\ VideoFixed
    /\ AudioFixed
    /\ PlayerFixed
    /\ LoadFixed
    /\ DurFixed
    /\ CallFixed

SpecRgb == InitRgb /\ [][RgbNext]_vars

DurationNext ==
    \/ (DurationDecide /\ UNCHANGED <<video_vars, audio_vars, player_vars,
                                        load_vars, rgb_vars, call_vars>>)
    \/ (ScanPacket /\ UNCHANGED <<video_vars, audio_vars, player_vars,
                                   load_vars, rgb_vars, call_vars>>)
    \/ (ScanEnd /\ UNCHANGED <<video_vars, audio_vars, player_vars,
                                load_vars, rgb_vars, call_vars>>)

\* Video::new settling the duration of a file, everything else held fixed.
InitDuration ==
    /\ DurInit
    /\ VideoInit
    /\ AudioFixed
    /\ PlayerFixed
    /\ LoadFixed
    /\ RgbFixed
    /\ CallFixed

SpecDuration == InitDuration /\ [][DurationNext]_vars

\* Frames in the long audio file: its buffer is longer than one Buffered
\* frame and the part behind the first frame holds a publishing index.
LongFrames == 18001

CursorSeek == \E t \in 0..1 : seek_begin(t)

CursorNext ==
    \/ (CursorSeek /\ UNCHANGED <<video_vars, player_vars, load_vars, dur_vars, rgb_vars, call_vars>>)
    \/ (seek_stop_clear /\ UNCHANGED <<video_vars, player_vars, load_vars, dur_vars, rgb_vars, call_vars>>)
    \/ (seek_attach /\ UNCHANGED <<video_vars, player_vars, load_vars, dur_vars, rgb_vars, call_vars>>)
    \/ (seek_resume /\ UNCHANGED <<video_vars, player_vars, load_vars, dur_vars, rgb_vars, call_vars>>)
    \/ (output_pull /\ UNCHANGED <<video_vars, player_vars, load_vars, dur_vars, rgb_vars, call_vars>>)

\* Audio::new on a file longer than the first frame read ahead.
InitCursor ==
    /\ AudioInitWith({1000}, {1}, {2 * LongFrames})
    /\ VideoFixed
    /\ PlayerFixed
    /\ LoadFixed
    /\ DurFixed
    /\ RgbFixed
    /\ CallFixed

SpecCursor == InitCursor /\ [][CursorNext]_vars

\* The whole audio controller on a file whose second frame holds two
\* publishing indices; seeks go to the last millisecond of the file.
WriterFrames == 20001

WriterSeek == seek_begin(WriterFrames - 1)

WritersNext ==
    \/ (WriterSeek /\ UNCHANGED <<video_vars, player_vars, load_vars, dur_vars, rgb_vars, call_vars>>)
    \/ (seek_stop_clear /\ UNCHANGED <<video_vars, player_vars, load_vars, dur_vars, rgb_vars, call_vars>>)
    \/ (seek_attach /\ UNCHANGED <<video_vars, player_vars, load_vars, dur_vars, rgb_vars, call_vars>>)
    \/ (seek_resume /\ UNCHANGED <<video_vars, player_vars, load_vars, dur_vars, rgb_vars, call_vars>>)
    \/ (get_current_time /\ UNCHANGED <<video_vars, player_vars, load_vars, dur_vars, rgb_vars, call_vars>>)
    \/ (pause /\ UNCHANGED <<video_vars, player_vars, load_vars, dur_vars, rgb_vars, call_vars>>)
    \/ (play /\ UNCHANGED <<video_vars, player_vars, load_vars, dur_vars, rgb_vars, call_vars>>)
    \/ (output_pull /\ UNCHANGED <<video_vars, player_vars, load_vars, dur_vars, rgb_vars, call_vars>>)

InitWriters ==
    /\ AudioInitWith({1000}, {WriterFrames}, {2 * WriterFrames})
    /\ VideoFixed
    /\ PlayerFixed
    /\ LoadFixed
    /\ DurFixed
    /\ RgbFixed
    /\ CallFixed

SpecWriters == InitWriters /\ [][WritersNext]_vars

----------------------------------------------------------------------------
(* Properties of the video pipeline (checked under SpecVideo).             *)

\* The frame delivered by the step was handed to the caller.
Emitted == v_pc = "idle" /\ v_result.kind \in {"Frame", "ConvertErr"}

DecodedMs == timestamp_to_ms(decoded, time_base)

\* C1: the frame that ends a seek settle has a timestamp >= the target, or
\* exactly 300 frames were discarded between the seek and it.
C1_Original ==
    [][(just_seeked /\ ~just_seeked') =>
          (\/ DecodedMs' >= seek_target_ms
           \/ discarded_timed' + discarded_untimed' = SeekFrameLimit)]_vars

\* C2 (as stated): after a Video::seek whose container seek failed, no seek
\* is in progress, whatever the state before the call.
C2_Original == (v_pc = "idle" /\ v_result.kind = "SeekErr") => ~just_seeked

\* C2 (amended): a Video::seek whose container seek fails returns the error
\* and never starts a settle: afterwards a seek is in progress only if an
\* earlier successful seek was still settling, and then toward that earlier
\* target.
C2_FailedSeekNotInProgress ==
    [][\A t \in Targets :
          seek_to_ms_accurate(t, FALSE) =>
              /\ v_result'.kind = "SeekErr"
              /\ just_seeked' = just_seeked
              /\ (just_seeked' => seek_target_ms' = seek_target_ms)]_vars

\* A seek failed while an earlier seek was still discarding frames.
C2_Witness ==
    /\ v_pc = "idle"
    /\ v_result.kind = "SeekErr"
    /\ just_seeked
    /\ discarded_timed > 0

\* C3: a successful Video::seek(t), from Idle or from a pending seek, leaves
\* the pipeline awaiting settle with target t, frames-since-seek 0 and
\* get_current_timestamp_ms() = t.
C3_SeekEffect ==
    [][\A t \in Targets :
          seek_to_ms_accurate(t, TRUE) =>
              /\ just_seeked'
              /\ seek_target_ms' = t
              /\ frames_decoded_since_seek' = 0
              /\ get_current_timestamp_ms' = t
              /\ v_result'.kind = "SeekOk"]_vars

\* A seek to a non-zero target has just returned Ok, issued after frames had
\* already been emitted at another timestamp.
C3_Witness ==
    /\ v_pc = "idle"
    /\ v_result.kind = "SeekOk"
    /\ seek_target_ms > 0
    /\ current_timestamp_ms = seek_target_ms
    /\ decoded # NoPts
    /\ DecodedMs # seek_target_ms

\* C4: while awaiting settle, the timestamped frame that takes the count
\* above 300 is emitted whatever its timestamp, the pipeline returns to Idle
\* and the current timestamp becomes that frame's; up to a count of 300 no
\* frame below the target is emitted.
C4_SafetyValve ==
    [][(just_seeked /\ VideoReceive /\ decoded' # NoPts) =>
          IF frames_decoded_since_seek' > SeekFrameLimit
          THEN /\ Emitted'
               /\ ~just_seeked'
               /\ current_timestamp_ms' = DecodedMs'
          ELSE Emitted' => DecodedMs' >= seek_target_ms]_vars

\* The valve emitted a frame with timestamp 0 for a non-zero target.
C4_Witness ==
    /\ v_result.settled
    /\ ~just_seeked
    /\ frames_decoded_since_seek = SeekFrameLimit + 1
    /\ decoded # NoPts
    /\ DecodedMs = 0
    /\ current_timestamp_ms = 0
    /\ seek_target_ms > 0

\* C5: while awaiting settle and up to a count of 300, a frame whose
\* timestamp is 0 ms is skipped (not emitted, still awaiting settle, current
\* timestamp unchanged), also for target 0; so the frame that settles a
\* seek(0) below the bound has a timestamp > 0.
C5_ZeroSkipped ==
    [][(just_seeked /\ VideoReceive /\ decoded' # NoPts
            /\ frames_decoded_since_seek' <= SeekFrameLimit) =>
          /\ (DecodedMs' = 0 =>
                 /\ ~Emitted'
                 /\ v_pc' = "next_frame"
                 /\ just_seeked'
                 /\ current_timestamp_ms' = current_timestamp_ms)
          /\ ((seek_target_ms = 0 /\ ~just_seeked') => DecodedMs' > 0)]_vars

\* A 0 ms frame was skipped while settling a seek to 0.
C5_Witness ==
    /\ just_seeked
    /\ seek_target_ms = 0
    /\ last_pts = 0
    /\ decoded = 0
    /\ discarded_timed > 0
    /\ v_pc = "next_frame"

\* C6: while awaiting settle, a frame without pts is not emitted and leaves
\* the current timestamp, the settle flag, the target and the
\* frames-since-seek counter unchanged.
C6_UntimedDiscarded ==
    [][(just_seeked /\ VideoReceive /\ decoded' = NoPts) =>
          /\ ~Emitted'
          /\ v_pc' = "next_frame"
          /\ UNCHANGED <<current_timestamp_ms, just_seeked, seek_target_ms,
                         frames_decoded_since_seek, v_result>>]_vars

\* An untimed frame was dropped in the middle of a settle.
C6_Witness ==
    /\ just_seeked
    /\ decoded = NoPts
    /\ discarded_untimed > 0
    /\ frames_decoded_since_seek > 0

\* C7 (as stated): while Idle every decoded frame is emitted and afterwards
\* get_current_timestamp_ms() is the timestamp of the frame just emitted.
C7_Original ==
    [][(~just_seeked /\ VideoReceive) =>
          /\ Emitted'
          /\ decoded' # NoPts
          /\ get_current_timestamp_ms' = DecodedMs']_vars

\* C7 (amended): while Idle every decoded frame is emitted; a frame that
\* carries a pts sets the current timestamp to its timestamp, a frame
\* without pts is emitted and leaves the current timestamp unchanged.
C7_IdleEmitsAll ==
    [][(~just_seeked /\ VideoReceive) =>
          /\ Emitted'
          /\ ~just_seeked'
          /\ IF decoded' # NoPts
             THEN get_current_timestamp_ms' = DecodedMs'
             ELSE get_current_timestamp_ms' = get_current_timestamp_ms]_vars

\* An untimed frame was emitted in Idle after timestamped ones.
C7_Witness ==
    /\ v_pc = "idle"
    /\ v_result = [kind |-> "Frame", settled |-> FALSE]
    /\ decoded = NoPts
    /\ last_pts # NoPts
    /\ current_timestamp_ms > 0

\* C8: the current timestamp decreases only in a successful seek call, in a
\* step taken while a seek is settling, or when the decoder delivers a frame
\* whose pts is below the pts it delivered before.
C8_Monotonic ==
    [][(current_timestamp_ms' < current_timestamp_ms) =>
          \/ \E t \in Targets : seek_to_ms_accurate(t, TRUE)
          \/ just_seeked
          \/ (decoded' # NoPts /\ last_pts # NoPts /\ decoded' < last_pts)]_vars

\* Frames were emitted in Idle in increasing order after a seek had settled.
C8_Witness ==
    /\ ~just_seeked
    /\ v_result = [kind |-> "Frame", settled |-> FALSE]
    /\ frames_decoded_since_seek > 0
    /\ decoded # NoPts
    /\ current_timestamp_ms = DecodedMs
    /\ current_timestamp_ms > seek_target_ms

----------------------------------------------------------------------------
(* Properties of the audio controller (checked under SpecAudio).           *)

\* C9: for every T in [0, duration_ms], Audio::seek(T) followed immediately
\* by get_current_time(), before the output thread has pulled from the new
\* cursor, reads exactly T.
C9_SeekRoundTrip ==
    (/\ a_pc = "idle"
     /\ a_last.op = "seek"
     /\ a_last.arg \in 0..duration_ms
     /\ ~pulled_since_attach) => a_time_cell = a_last.arg

\* C10: after any sequence of play, pause and seek calls, a completed seek
\* leaves the sink paused exactly when it was paused right before that seek,
\* and was_playing records the state that was resumed.
C10_SeekKeepsPlayState ==
    (a_pc = "idle" /\ a_last.op = "seek") =>
        /\ sink_paused = a_last.paused_before
        /\ was_playing = ~sink_paused

\* A seek issued while paused has completed and the sink is still paused.
C10_Witness ==
    /\ a_pc = "idle"
    /\ a_last.op = "seek"
    /\ a_last.paused_before
    /\ sink_paused
    /\ cursor.live
    /\ cursor.start_pos > 0

----------------------------------------------------------------------------
(* Properties of the sync monitor (checked under SpecPlayer).              *)

\* A step of the sync monitor in which the comparison was made.
Compared == p_pc = "sync" /\ p_pc' # "sync" /\ p_last'.compared

\* The step started Audio::seek with the given requested target.
SeekIssued(target_ms) == a_pc = "idle" /\ a_pc' = "stop"
                         /\ a_seek'.requested = target_ms

\* C11: when the sync comparison runs, audio.seek(video_time_ms) is issued
\* exactly when |video_time_ms - audio_time_ms| > 200: a drift of 300 ms
\* (10000 against 9700) triggers it, a drift of 150 ms or of exactly 200 ms
\* does not.  The comparison itself leaves the audio alone; the seek it
\* decided on is the main thread's next step.
C11_ResyncIffDrift ==
    [][ /\ SyncNeeded(10000, 9700)
        /\ ~SyncNeeded(10000, 9850)
        /\ ~SyncNeeded(10000, 9800)
        /\ (Compared =>
               LET drift == Abs(current_timestamp_ms - a_time_cell)
               IN  /\ p_pc' = "sync_seek" <=> drift > 200
                   /\ p_pc' = "idle" <=> drift <= 200
                   /\ UNCHANGED audio_vars)
        /\ (p_pc = "sync_seek" =>
               \/ SeekIssued(current_timestamp_ms)
               \/ UNCHANGED <<video_vars, player_vars>>) ]_vars

\* A comparison ran on a drift of exactly 200 ms and left the audio alone.
C11_Witness ==
    /\ p_pc = "idle"
    /\ p_last.compared
    /\ ~p_last.resync
    /\ p_last.video_ms - p_last.audio_ms = 200
    /\ a_last.op # "seek"

\* C12: the sync comparison is performed only in a cycle that accepted a
\* video frame, only when that frame is a 150th one, and only with audio
\* attached and the player not paused.
C12_OnlyOnAccepted150th ==
    [][ Compared =>
            /\ p_last.accepted
            /\ frame_count > 0
            /\ frame_count % SyncEvery = 0
            /\ audio_attached
            /\ ~paused ]_vars

\* A step of the sync monitor, or of the audio seek it issued.
SyncStep == \/ p_pc = "sync" /\ p_pc' # "sync"
            \/ p_pc = "sync_seek" /\ p_pc' # "sync_seek"
            \/ p_pc = "resync" /\ a_pc' # a_pc

\* C13: the video is the sync master.  A sync check never seeks the video nor
\* changes its current timestamp, seek target, settle flag or settle frame
\* counter; the only thing a drift correction does is seek the audio to the
\* video's current timestamp.
C13_VideoIsMaster ==
    [][ SyncStep =>
            /\ UNCHANGED video_vars
            /\ UNCHANGED <<audio_attached, paused, frame_count>>
            /\ IF p_pc = "sync_seek"
               THEN SeekIssued(current_timestamp_ms)
               ELSE p_pc = "sync" => UNCHANGED audio_vars ]_vars

\* A drift correction has completed as an audio seek to the video's
\* timestamp, on a video that had itself been sought before.
C13_Witness ==
    /\ p_pc = "idle"
    /\ p_last.resync
    /\ a_last.op = "seek"
    /\ a_last.arg = current_timestamp_ms
    /\ seek_target_ms > 0
    /\ current_timestamp_ms # seek_target_ms

----------------------------------------------------------------------------
(* Properties of the time cell and the cursor.                             *)

\* A step taken by the main thread inside an Audio method.
MainThreadStep == a_pc' # a_pc \/ a_last' # a_last

\* C14 as stated: the time cell has a single writer, the audio-consumer
\* context pulling the active cursor; the main thread only reads it.
C14_Original ==
    [][ MainThreadStep => a_time_cell' = a_time_cell ]_vars

\* The step stores the seek target (audio.rs:233).
SeekStore == a_pc = "idle" /\ a_pc' = "stop"

\* The step builds the new cursor and source inside Audio::seek
\* (audio.rs:238-246).
SourceBuilt == a_pc = "attach" /\ a_pc' = "resume"

\* The step is a call of get_current_time (audio.rs:255-257).
TimeRead == a_last' # a_last /\ a_last'.op = "get_current_time"

\* ms is the time of a buffer index at which a pull publishes.
PublishedTime(ms) ==
    \E k \in 0..(samples_len \div PublishEvery) :
        ms = sample_pos_to_ms(k * PublishEvery, sample_rate)

\* C14: the time cell is written by the audio-consumer context, pulling the
\* active cursor, and also by the main thread inside Audio::seek, which
\* stores the clamped target and then builds the new cursor (whose
\* constructor stores the starting time and whose pulls, made while the
\* source is built, publish).  Outside Audio::seek the main thread only
\* reads the cell (get_current_time) or leaves it alone (pause, play).  Every
\* access is made under the cell's lock: the main thread reads and writes
\* only while the output thread does not hold it, and the output thread
\* writes only while holding it, a time its cursor publishes.
C14_TwoWriters ==
    [][ /\ MainThreadStep =>
             \/ a_time_cell' = a_time_cell
             \/ SeekStore /\ a_time_cell' = a_seek'.target_ms
             \/ /\ SourceBuilt
                /\ \/ a_time_cell' = sample_pos_to_ms(a_seek.sample_pos,
                                                      sample_rate)
                   \/ PublishedTime(a_time_cell')
        /\ (SeekStore \/ SourceBuilt \/ TimeRead) =>
             cell_lock = "free" /\ cell_lock' = "free"
        /\ TimeRead => a_last'.ret = a_time_cell
        /\ (~MainThreadStep /\ a_time_cell' # a_time_cell) =>
             /\ cell_lock = "output" /\ cell_lock' = "free"
             /\ cursor.live
             /\ cursor.position % PublishEvery = 0
             /\ a_time_cell' = sample_pos_to_ms(cursor.position, sample_rate)
        /\ cell_lock' # cell_lock => ~MainThreadStep
      ]_vars

\* The output thread, reading the second frame from the cursor, has published
\* at the first of the two publishing indices in it; the main thread has read
\* that time with get_current_time and has then, in Audio::seek, stored the
\* seek target over it.
C14_Witness ==
    /\ a_pc = "stop"
    /\ a_last.op = "get_current_time"
    /\ a_last.ret = sample_pos_to_ms(NextPublishing(BufferedFrameLen),
                                     sample_rate)
    /\ NextPublishing(BufferedFrameLen) + PublishEvery < samples_len
    /\ a_time_cell = a_seek.target_ms
    /\ a_time_cell # a_last.ret

\* C16: a cursor publishes its starting offset on construction and again
\* every 4000 elements, so outside a seek the time in the cell is never more
\* than 4000 elements away from the position being played, also after the
\* looping wrapper restarted the sequence (checked under SpecCursor).
C16_LagBound ==
    (a_pc = "idle" /\ cursor.live) =>
        Abs(cursor.play - ms_to_sample_pos(a_time_cell, sample_rate))
            <= PublishEvery

\* n pulls of the cursor, one after the other, stopping at exhaustion: the
\* position and the time cell they leave.
RECURSIVE Pulls(_, _, _)
Pulls(position, cell, n) ==
    LET r == MemoryAudioSource_next(position, cell)
    IN  IF n = 0 \/ r.item = "None"
        THEN [position |-> position, cell |-> cell]
        ELSE Pulls(r.position, r.cell, n - 1)

\* C17: a cursor advances one element per pull and never wraps.  At or past
\* the end of the buffer a pull reports exhaustion and leaves position and
\* time cell as they were; a pull that returns an element read it inside the
\* buffer.  The frame the looping wrapper reads ahead is that many single
\* pulls, and every element the wrapper plays lies inside the buffer.
C17_NoWrap ==
    /\ \A position \in 0..(samples_len + 2) :
         LET r == MemoryAudioSource_next(position, a_time_cell)
         IN  /\ r.item = "Some" =>
                     /\ r.index = position
                     /\ r.index \in 0..(samples_len - 1)
                     /\ r.position = position + 1
             /\ position >= samples_len =>
                     /\ r.item = "None"
                     /\ r.position = position
                     /\ r.cell = a_time_cell
             /\ Buffered_extract(position, a_time_cell)
                    = Pulls(position, a_time_cell, BufferedFrameLen)
    /\ cursor.position \in cursor.start_pos..Max(cursor.start_pos, samples_len)
    /\ cursor.play \in cursor.start_pos..cursor.position
    /\ Repeat_next(cursor).item = "Some" =>
            Repeat_next(cursor).index \in 0..(samples_len - 1)

\* A source attached at element 2 has been played to the end of the buffer,
\* with the cursor left exhausted at the buffer length.
C17_Witness ==
    /\ cursor.live
    /\ pulled_since_attach
    /\ samples_len > 2
    /\ cursor.start_pos = 2
    /\ cursor.position = samples_len
    /\ cursor.play = samples_len

\* The time read back for a position computed from ms.
RoundTrip(ms) ==
    sample_pos_to_ms(ms_to_sample_pos(ms, sample_rate), sample_rate)

\* C18: ms_to_sample_pos(ms) is even for every non-negative ms and every
\* sample rate, so every cursor created by a seek starts on an even index.
C18_EvenOffset ==
    /\ \A ms \in 0..(MaxDurationMs + 1) :
            ms_to_sample_pos(ms, sample_rate) % 2 = 0
    /\ a_seek.sample_pos % 2 = 0
    /\ cursor.start_pos % 2 = 0

\* A seek to 1 ms at 1500 Hz (1.5 frames, truncated to 1) has attached its
\* cursor at element 2.
C18_Witness ==
    /\ sample_rate = 1500
    /\ a_pc = "idle"
    /\ a_last.op = "seek"
    /\ a_last.arg = 1
    /\ cursor.live
    /\ cursor.start_pos = 2

\* The last index in from..(to - 1) at which a pull publishes, NoIndex when
\* there is none.
LastPublishing(from, to) ==
    LET m == ((to - 1) \div PublishEvery) * PublishEvery
    IN  IF to > from /\ m >= from THEN m ELSE NoIndex

\* C19 as stated: for every ms in [0, duration_ms] the round trip
\* sample_pos_to_ms(ms_to_sample_pos(ms)) is within one sample period
\* (1000 / sample_rate ms) of ms.
C19_Original ==
    \A ms \in 0..duration_ms :
        Abs(RoundTrip(ms) - ms) * sample_rate <= 1000

\* C19: for every ms in [0, duration_ms] the round trip never exceeds ms and
\* falls short of it by less than one sample period plus one millisecond;
\* that round trip is the time a seek leaves in the cell before any pull,
\* unless a publishing index lies in the frame read ahead from the new cursor.
C19_RoundTripTruncates ==
    /\ \A ms \in 0..duration_ms :
            /\ RoundTrip(ms) <= ms
            /\ (ms - RoundTrip(ms)) * sample_rate < 1000 + sample_rate
    /\ (/\ a_pc = "idle"
        /\ a_last.op = "seek"
        /\ ~pulled_since_attach
        /\ LastPublishing(cursor.start_pos, cursor.position) = NoIndex) =>
            a_time_cell = RoundTrip(ClampTarget(a_last.arg, duration_ms))

\* A seek to 1 ms at 1500 Hz has left 0 in the time cell: a loss of 1 ms,
\* more than the sample period of 2/3 ms.
C19_Witness ==
    /\ sample_rate = 1500
    /\ duration_ms >= 1
    /\ a_pc = "idle"
    /\ a_last.op = "seek"
    /\ a_last.arg = 1
    /\ ~pulled_since_attach
    /\ a_time_cell = 0

----------------------------------------------------------------------------
(* Properties of the audio load (checked under SpecLoad).                  *)

\* C20: after load the decoded buffer is stereo-interleaved and of even
\* length, for mono and stereo streams and every sequence of decoded frame
\* sizes, dropped frames included.
C20_EvenLength ==
    load_pc = "done" => load_len % 2 = 0

----------------------------------------------------------------------------
(* Further properties of the audio controller (checked under SpecAudio).   *)

\* C21: for every target passed to Audio::seek the target is clamped to
\* [0, duration_ms] and the cursor the seek attaches starts at an element
\* offset within [0, buffer length].
C21_SeekInsideBuffer ==
    /\ a_seek.target_ms \in 0..duration_ms
    /\ a_pc = "resume" =>
            /\ cursor.start_pos >= 0
            /\ cursor.start_pos <= samples_len

----------------------------------------------------------------------------
(* Properties of the duration estimate (checked under SpecDuration).       *)

\* C22: the video duration is the container-reported duration in ms unless
\* that is smaller than ten frame intervals at the detected frame rate; then
\* it is the largest rescaled presentation timestamp over the packets of the
\* video stream, whatever their order, and the container is back at its
\* start afterwards.
C22_DurationIsMaxPts ==
    d_pc = "done" =>
        LET fps == get_framerate(d_rate)
            reported == reported_duration(d_reported)
        IN  /\ d_at_start
            /\ d_duration_ms = IF reported * fps.num < 10 * 1000 * fps.den
                               THEN d_max_pts
                               ELSE reported

----------------------------------------------------------------------------
(* Properties of single next_frame calls (checked under SpecCall).         *)

\* The step in which next_frame returns the decoder's submission error.
SendFails == v_pc' = "idle" /\ v_result'.kind = "SendErr"

\* A next_frame call has returned the decoder's submission error.
SendFailed == v_pc = "idle" /\ v_result.kind = "SendErr"

\* C23 as stated: a packet-submission error fails that call only, and the
\* failing call leaves settle flag, seek target, frame counter and current
\* timestamp as it found them.
C23_Original ==
    SendFailed => Snapshot = v_call

\* C23: a packet-submission error fails that call only.  The failing step
\* changes nothing of the pipeline and leaves the container open, so a later
\* call reads the following packet; the failing call as a whole leaves the
\* settle flag and the seek target as it found them, while frames it
\* discarded before the error have been counted and may have moved the
\* current timestamp; outside a settle it changes none of the four.
C23_FailingCall ==
    [][ SendFails =>
            /\ UNCHANGED <<current_timestamp_ms, just_seeked, seek_target_ms,
                           frames_decoded_since_seek, container_eof,
                           decoder_pending>>
            /\ ~container_eof'
            /\ just_seeked = v_call'.just_seeked
            /\ seek_target_ms = v_call'.seek_target_ms
            /\ frames_decoded_since_seek >= v_call'.frames_decoded_since_seek
            /\ (\/ ~just_seeked
                \/ frames_decoded_since_seek
                        = v_call'.frames_decoded_since_seek)
                   => Snapshot = v_call' ]_vars

\* After a call failed with a submission error a later call has emitted a
\* frame.
C23_Witness ==
    /\ v_send_failed
    /\ v_pc = "idle"
    /\ v_result.kind = "Frame"

\* A step in which a next_frame call returns (a seek returns SeekOk/SeekErr).
CallReturns == v_pc' = "idle" /\ v_result'.kind \notin {"SeekOk", "SeekErr"}

\* C24: next_frame returns None only at end of stream, with no packet left
\* in the container and no decoded frame pending; a step that discards a
\* frame during seek settle does not return at all; and once the container
\* has ended every call returns None until a seek succeeds.
C24_NoneOnlyAtEnd ==
    [][ /\ (CallReturns /\ v_result'.kind = "None") =>
                /\ decoder_pending = 0
                /\ decoder_pending' = 0
                /\ container_eof'
        /\ (discarded_timed' > discarded_timed
                \/ discarded_untimed' > discarded_untimed) =>
                /\ v_pc' = "next_frame"
                /\ v_result' = v_result
        /\ (CallReturns /\ container_eof) =>
                /\ v_result'.kind = "None"
                /\ container_eof' ]_vars

\* None has been returned at the end of the container by a call that began
\* while a seek was settling, a frame having been discarded since the seek.
C24_Witness ==
    /\ v_pc = "idle"
    /\ v_result.kind = "None"
    /\ container_eof
    /\ just_seeked
    /\ v_call.just_seeked
    /\ frames_decoded_since_seek > 0

----------------------------------------------------------------------------
(* Properties of the colour conversion (checked under SpecRgb).            *)

\* C25: for every width, height, row stride and source length, a pixel
\* (x, y) whose three source bytes at y*stride + 3x lie inside the source is
\* written to the destination bytes from 4*(y*width + x) as (R, G, B, 255);
\* a pixel whose source bytes are out of range is left untouched; and no
\* index outside either buffer is read or written.
C25_ConvertInBounds ==
    /\ ~c_out_of_range
    /\ c_pc # "panicked"
    /\ Len(c_dst) = c_width * c_height * 4
    /\ c_pc = "done" =>
            \A y \in 0..(c_height - 1), x \in 0..(c_width - 1) :
                LET si == y * c_line_size + 3 * x
                    di == 4 * (y * c_width + x)
                IN  IF si + 3 <= Len(c_src)
                    THEN /\ c_dst[di + 1] = c_src[si + 1]
                         /\ c_dst[di + 2] = c_src[si + 2]
                         /\ c_dst[di + 3] = c_src[si + 3]
                         /\ c_dst[di + 4] = 255
                    ELSE \A k \in 1..4 : c_dst[di + k] = 0

\* A 2x2 frame has been converted from a source that holds the first row
\* and only part of the second: some pixels copied, some dropped.
C25_Witness ==
    /\ c_pc = "done"
    /\ c_width = 2
    /\ c_height = 2
    /\ c_line_size = 6
    /\ Len(c_src) = 8
    /\ c_dst[4] = 255
    /\ c_dst[8] = 255
    /\ c_dst[12] = 0
    /\ c_dst[16] = 0


\* ---------------------------------------------------------------------
\* Further properties of the seek settle (video.rs:123-170, 253-267)
\* ---------------------------------------------------------------------

\* C26 (as stated): between a seek and the next emitted frame, error or end
\* of stream, at most 300 decoded frames are discarded, frames without a
\* timestamp included.
C26_DiscardBound == discarded_timed + discarded_untimed <= SeekFrameLimit

\* C27: a Video::seek whose container seek fails returns the error and leaves
\* the current timestamp, the awaiting-settle flag, the seek target and the
\* frames-since-seek counter exactly as they were before the call.
C27_FailedSeekKeepsState ==
    [][(v_pc' = "idle" /\ v_result'.kind = "SeekErr") =>
          /\ \E t \in Targets : seek_to_ms_accurate(t, FALSE)
          /\ UNCHANGED <<current_timestamp_ms, just_seeked, seek_target_ms,
                         frames_decoded_since_seek>>]_vars

\* A seek failed in the middle of a settle that had already counted a frame
\* and moved the current timestamp off the target; all of that is still
\* there after the failure.
C27_Witness ==
    /\ v_pc = "idle"
    /\ v_result.kind = "SeekErr"
    /\ just_seeked
    /\ frames_decoded_since_seek > 0
    /\ current_timestamp_ms > 0
    /\ current_timestamp_ms < seek_target_ms

SettleSeek == \E t \in Targets : seek_to_ms_accurate(t, TRUE)

\* C28: while the pipeline awaits seek settle the current timestamp is at
\* most the seek target: it equals the target right after the seek, and
\* afterwards it only changes to the timestamp of a discarded frame, which is
\* strictly below the target.
C28_SettleTimestampBelowTarget ==
    /\ [](just_seeked => current_timestamp_ms <= seek_target_ms)
    /\ [][SettleSeek => (just_seeked' /\ current_timestamp_ms' = seek_target_ms')]_vars
    /\ [][(just_seeked' /\ ~SettleSeek /\ current_timestamp_ms' # current_timestamp_ms) =>
             /\ just_seeked
             /\ VideoReceive
             /\ ~Emitted'
             /\ decoded' # NoPts
             /\ current_timestamp_ms' = DecodedMs'
             /\ current_timestamp_ms' < seek_target_ms'
             /\ UNCHANGED seek_target_ms]_vars

\* A frame below the target has been discarded during a settle and its
\* timestamp, not the target, is now the current timestamp.
C28_Witness ==
    /\ just_seeked
    /\ v_result.kind = "SeekOk"
    /\ discarded_timed > 0
    /\ decoded # NoPts
    /\ current_timestamp_ms = DecodedMs
    /\ current_timestamp_ms > 0
    /\ current_timestamp_ms < seek_target_ms

\* C29: whenever audio is attached and no Audio::seek is in the middle of its
\* steps, the player's paused flag equals the sink's paused state and the
\* negation of the recorded was_playing, after any sequence of toggles, user
\* seeks, sync corrections and file loads.
C29_PausedMatchesSink ==
    (audio_attached /\ a_pc = "idle") =>
        /\ paused = sink_paused
        /\ was_playing = ~paused

\* A file was loaded after a frame had been counted, the player was then
\* paused and a user seek went through the audio pipeline: the sink is still
\* paused.
C29_Witness ==
    /\ audio_attached
    /\ p_pc = "idle"
    /\ p_last.loaded
    /\ frame_count > 0
    /\ paused
    /\ sink_paused
    /\ a_last.op = "seek"
    /\ v_result.kind = "SeekOk"

\* The step on which a sync-triggered Audio::seek returns.
ResyncDone == p_pc = "resync" /\ p_pc' = "idle"

\* C30: right after a sync-triggered audio.seek(video_time_ms) the audio
\* current time is within 200 ms of the video current timestamp, for every
\* video timestamp and every audio duration, so that the next sync check does
\* not correct the same drift again (checked under SpecResync).
C30_ResyncWithinThreshold ==
    [][ResyncDone => ~SyncNeeded(current_timestamp_ms', a_time_cell')]_vars

====
